---------------------------- MODULE Spec2Model ----------------------------
(***************************************************************************)
(* A model of kingpin's scoring pipeline (src/src/kingpin/game.py):        *)
(*   score_game = _validate_structure ; _parse_frames_to_rolls ;           *)
(*                _calculate_cumulative_scores                             *)
(*                                                                         *)
(* A roll symbol (a Python str) is a record [pad, ch]: ch is the text left *)
(* once leading/trailing whitespace is removed, pad tells whether there    *)
(* was any whitespace (spaces, tabs, newlines) around it.  str.strip()     *)
(* clears pad, str.upper() maps "x" to "X", and a comparison with the      *)
(* literal 'X' or '/' is a comparison with the unpadded symbol.            *)
(*                                                                         *)
(* starts, cursors and covered are history variables: they record where    *)
(* the parser and the scorer were in the pinfall list, which the code      *)
(* computes (len(rolls), roll_index) but does not return.                  *)
(***************************************************************************)
EXTENDS Integers, Sequences, FiniteSets

VARIABLES
    pc,        \* position in score_game: "start", "validated", "parsed", "done", "error"
    frames,    \* the argument of score_game: a sequence of frames (sequences of symbols)
    rolls,     \* the flat pinfall list returned by _parse_frames_to_rolls
    starts,    \* starts[k]: 0-based position in rolls of the first pinfall parsed from input frame k
    scores,    \* the list returned by _calculate_cumulative_scores (None where unresolved)
    cursors,   \* cursors[k]: roll_index at which the scorer began its k-th resolved logical frame
    covered,   \* number of leading positions of rolls the scorer read (frame rolls and bonus rolls)
    err,       \* the kind of InvalidGameError raised, "" when none
    errFrame   \* the 1-based frame number the error message names, 0 when none

vars == <<pc, frames, rolls, starts, scores, cursors, covered, err, errFrame>>

-----------------------------------------------------------------------------
(* Program constants *)

\* len(frames) > 10
MaxFrames == 10
\* index < 9 / index == 9: the 0-based index of the tenth frame
TenthIndex == 9
\* len(frame) > 2 in frames 1-9
MaxRollsNormal == 2
\* len(frame) > 3 in frame 10
MaxRollsTenth == 3
\* a strike's pinfall, and the rack size
AllPins == 10
\* val > 9
MaxDigit == 9

\* None in the returned list: an entry the scorer left unresolved
None == -1

-----------------------------------------------------------------------------
(* Bounds of the explored inputs *)

\* a game opens with 0..MaxPrefix copies of one opening frame
MaxPrefix == 10
\* over-long frames hold up to MaxRollsTenth + MaxExtraRolls symbols
MaxExtraRolls == 1
\* ScorerSpec: a pinfall list is 0..MaxOpening copies of one opening frame's pinfalls,
\* then up to MaxTailRolls pinfalls of any value
MaxOpening == 10
MaxTailRolls == 2

-----------------------------------------------------------------------------
(* Symbols *)

Sym(c) == [pad |-> FALSE, ch |-> c]
Padded(c) == [pad |-> TRUE, ch |-> c]

\* str.strip()
strip(s) == [s EXCEPT !.pad = FALSE]

\* str.upper()
upper(s) == IF s.ch = "x" THEN [s EXCEPT !.ch = "X"] ELSE s

DigitText == {"0", "1", "2", "3", "4", "5", "6", "7", "8", "9"}

\* the texts int() parses, with their values
IntText == DigitText \cup {"12", "-1"}

IntValue(c) ==
    CASE c = "0" -> 0 [] c = "1" -> 1 [] c = "2" -> 2 [] c = "3" -> 3
      [] c = "4" -> 4 [] c = "5" -> 5 [] c = "6" -> 6 [] c = "7" -> 7
      [] c = "8" -> 8 [] c = "9" -> 9 [] c = "12" -> 12 [] c = "-1" -> 0 - 1

\* str.isdigit(): every character is a digit (no sign, no whitespace)
isdigit(s) == (~s.pad) /\ s.ch \in (DigitText \cup {"12"})

\* int(s) raises ValueError
IntFails(s) == s.ch \notin IntText

\* int(s): surrounding whitespace is accepted by int()
int(s) == IntValue(s.ch)


-----------------------------------------------------------------------------
(* Python list access: 0-based *)

At(seq, i) == seq[i + 1]

\* any(r.upper() == 'X' for r in frame), and 'X' in [r.upper() for r in frame]
AnyStrike(frame) == \E j \in 1..Len(frame) : upper(frame[j]) = Sym("X")

\* '/' in frame
HasSpareMark(frame) == \E j \in 1..Len(frame) : frame[j] = Sym("/")

Ok(rs) == [err |-> "", errFrame |-> 0, rolls |-> rs]
Fail(kind, index) == [err |-> kind, errFrame |-> index + 1, rolls |-> <<>>]

-----------------------------------------------------------------------------
(* _validate_structure *)

\* faulty variant: the bound compared with >= (a tenth frame is already one too many)
TooManyFramesOffByOne(fs) == Len(fs) >= MaxFrames

\* if len(frames) > 10: raise InvalidGameError("Game cannot have more than 10 frames ...")
TooManyFrames(fs) == Len(fs) > MaxFrames

-----------------------------------------------------------------------------
(* _parse_frames_to_rolls: the validation block of one frame *)

\* Rule 1: frames 1-9 can have at most 2 rolls
Rule1(index, frame) ==
    IF index < TenthIndex /\ Len(frame) > MaxRollsNormal THEN "too many rolls" ELSE ""

\* faulty variant: the length of a strike frame is checked before the position of the strike
Rule2LengthFirst(index, frame) ==
    IF index < TenthIndex /\ AnyStrike(frame)
    THEN IF Len(frame) # 1 THEN "Strike but has extra rolls"
         ELSE IF upper(At(frame, 0)) # Sym("X") THEN "Strike must be the first roll"
         ELSE ""
    ELSE ""

\* Rule 2: frames 1-9, a strike must be the only roll; position is checked before length
Rule2(index, frame) ==
    IF index < TenthIndex /\ AnyStrike(frame)
    THEN IF upper(At(frame, 0)) # Sym("X") THEN "Strike must be the first roll"
         ELSE IF Len(frame) # 1 THEN "Strike but has extra rolls"
         ELSE ""
    ELSE ""

\* faulty variant: a spare mark anywhere in the frame earns the third roll
BonusUnearnedAnySpare(frame) ==
    upper(At(frame, 0)) # Sym("X") /\ ~HasSpareMark(frame)

\* frame[0].upper() != 'X' and (len(frame) > 1 and frame[1] != '/')
BonusUnearned(frame) ==
    upper(At(frame, 0)) # Sym("X") /\ (Len(frame) > 1 /\ At(frame, 1) # Sym("/"))

\* Rule 3: tenth frame, at most 3 rolls, and a third roll must be earned
Rule3(index, frame) ==
    IF index = TenthIndex
    THEN IF Len(frame) > MaxRollsTenth THEN "Frame 10 has too many rolls"
         ELSE IF Len(frame) = MaxRollsTenth /\ BonusUnearned(frame)
              THEN "Extra roll only allowed for Strike or Spare"
         ELSE ""
    ELSE ""

\* the validation block: the first rule that raises, "" when none does
ValidationError(index, frame) ==
    IF Rule1(index, frame) # "" THEN Rule1(index, frame)
    ELSE IF Rule2(index, frame) # "" THEN Rule2(index, frame)
    ELSE Rule3(index, frame)

-----------------------------------------------------------------------------
(* _parse_frames_to_rolls: the parsing block of one frame *)

\* Rule 4: tenth frame, a digit after a digit; the previous symbol is read unstripped
Rule4(index, frame, i, val) ==
    IF index = TenthIndex /\ i > 0 /\ isdigit(At(frame, i - 1))
    THEN IF int(At(frame, i - 1)) + val > AllPins THEN "Bonus rolls exceed 10 pins"
         ELSE IF int(At(frame, i - 1)) + val = AllPins THEN "Spare must use '/'"
         ELSE ""
    ELSE ""

\* Rule 5: frames 1-9, the second roll of a frame without strike and without spare mark
Rule5(index, frame, i, frame_pin_sum) ==
    IF index < TenthIndex /\ i = 1 /\ ~AnyStrike(frame) /\ ~HasSpareMark(frame)
    THEN IF frame_pin_sum = AllPins THEN "Sum is 10. You must use '/' for spares"
         ELSE IF frame_pin_sum > AllPins THEN "Sum of pins is invalid"
         ELSE ""
    ELSE ""

\* the checks on a spare mark at position i
SpareError(frame, i) ==
    IF i = 0 THEN "Spare cannot be the first roll"
    ELSE IF upper(strip(At(frame, i - 1))) = Sym("X") \/ upper(strip(At(frame, i - 1))) = Sym("/")
         THEN "Spare cannot follow"
    ELSE ""

\* the checks on a numeric symbol at position i, before it is appended
NumberError(index, frame, i, roll_str) ==
    IF IntFails(roll_str) THEN "Invalid symbol"
    ELSE IF int(roll_str) < 0 \/ int(roll_str) > MaxDigit THEN "Invalid pin count"
    ELSE Rule4(index, frame, i, int(roll_str))

\* for i, roll_str in enumerate(frame): ... from position i on
RECURSIVE ParseRolls(_, _, _, _, _)
ParseRolls(index, frame, i, rs, frame_pin_sum) ==
    IF i >= Len(frame) THEN Ok(rs)
    ELSE LET roll_str == strip(At(frame, i))
             upper_str == upper(roll_str)
         IN  IF upper_str = Sym("X")
             THEN ParseRolls(index, frame, i + 1, Append(rs, AllPins), frame_pin_sum + AllPins)
             ELSE IF roll_str = Sym("/")
             THEN IF SpareError(frame, i) # "" THEN Fail(SpareError(frame, i), index)
                  ELSE ParseRolls(index, frame, i + 1,
                                  Append(rs, AllPins - rs[Len(rs)]), AllPins)
             ELSE IF NumberError(index, frame, i, roll_str) # ""
                  THEN Fail(NumberError(index, frame, i, roll_str), index)
                  ELSE LET val == int(roll_str) IN
                       IF Rule5(index, frame, i, frame_pin_sum + val) # ""
                       THEN Fail(Rule5(index, frame, i, frame_pin_sum + val), index)
                       ELSE ParseRolls(index, frame, i + 1, Append(rs, val), frame_pin_sum + val)

\* one iteration of `for index, frame in enumerate(frames)`
ParseFrame(index, frame, rs) ==
    IF ValidationError(index, frame) # "" THEN Fail(ValidationError(index, frame), index)
    ELSE ParseRolls(index, frame, 0, rs, 0)

\* _parse_frames_to_rolls from frame `index` on; st records where in rolls each frame began
RECURSIVE ParseFrames(_, _, _, _)
ParseFrames(fs, index, rs, st) ==
    IF index >= Len(fs) THEN [err |-> "", errFrame |-> 0, rolls |-> rs, starts |-> st]
    ELSE LET r == ParseFrame(index, At(fs, index), rs) IN
         IF r.err # ""
         THEN [err |-> r.err, errFrame |-> r.errFrame, rolls |-> <<>>, starts |-> <<>>]
         ELSE ParseFrames(fs, index + 1, r.rolls, Append(st, Len(rs)))

parse_frames_to_rolls(fs) == ParseFrames(fs, 0, <<>>, <<>>)

-----------------------------------------------------------------------------
(* _calculate_cumulative_scores *)

\* faulty variant: [None] * 9
NoScoresNine == [k \in 1..(MaxFrames - 1) |-> None]

\* cumulative_scores = [None] * 10
NoScores == [k \in 1..MaxFrames |-> None]

\* roll_index + 2 >= len(rolls): a strike lacks its two bonus rolls
StrikeWaits(rs, roll_index) == roll_index + 2 >= Len(rs)

\* roll_index + 1 >= len(rolls): the frame lacks its second roll
SecondWaits(rs, roll_index) == roll_index + 1 >= Len(rs)

\* roll_index + 2 >= len(rolls): a spare lacks its bonus roll
SpareWaits(rs, roll_index) == roll_index + 2 >= Len(rs)

\* current_roll + second_roll == 10
IsSpare(current_roll, second_roll) == current_roll + second_roll = AllPins

\* faulty variant: the strike's own ten is added twice
StrikeScoreTwice(rs, roll_index) ==
    AllPins + At(rs, roll_index) + At(rs, roll_index + 1) + At(rs, roll_index + 2)

\* the score of a strike frame
StrikeScore(rs, roll_index) == AllPins + At(rs, roll_index + 1) + At(rs, roll_index + 2)

\* faulty variant: the spare's bonus is taken from the frame's own second roll
SpareScoreOwnRoll(rs, roll_index) == AllPins + At(rs, roll_index + 1)

\* the score of a spare frame
SpareScore(rs, roll_index) == AllPins + At(rs, roll_index + 2)

\* the score of an open frame
OpenScore(current_roll, second_roll) == current_roll + second_roll

RECURSIVE ScoreLoop(_, _, _, _, _, _, _)

\* running_total += frame_score; cumulative_scores[frame] = running_total; next iteration.
\* advance is what the branch added to roll_index, read is how many rolls it looked at.
Record(rs, frame, roll_index, running_total, cumulative_scores, cs, cov, frame_score, advance, read) ==
    ScoreLoop(rs, frame + 1, roll_index + advance, running_total + frame_score,
              [cumulative_scores EXCEPT ![frame + 1] = running_total + frame_score],
              Append(cs, roll_index),
              IF roll_index + read > cov THEN roll_index + read ELSE cov)

\* for frame in range(10): ... from iteration `frame` on
ScoreLoop(rs, frame, roll_index, running_total, cumulative_scores, cs, cov) ==
    LET stop == [scores |-> cumulative_scores, cursors |-> cs, covered |-> cov] IN
    IF frame >= MaxFrames THEN stop
    ELSE IF roll_index >= Len(rs) THEN stop
    ELSE LET current_roll == At(rs, roll_index) IN
         IF current_roll = AllPins
         THEN IF StrikeWaits(rs, roll_index) THEN stop
              ELSE Record(rs, frame, roll_index, running_total, cumulative_scores, cs, cov,
                          StrikeScore(rs, roll_index), 1, 3)
         ELSE IF SecondWaits(rs, roll_index) THEN stop
              ELSE LET second_roll == At(rs, roll_index + 1) IN
                   IF IsSpare(current_roll, second_roll)
                   THEN IF SpareWaits(rs, roll_index) THEN stop
                        ELSE Record(rs, frame, roll_index, running_total, cumulative_scores, cs, cov,
                                    SpareScore(rs, roll_index), 2, 3)
                   ELSE Record(rs, frame, roll_index, running_total, cumulative_scores, cs, cov,
                               OpenScore(current_roll, second_roll), 2, 2)

calculate_cumulative_scores(rs) == ScoreLoop(rs, 0, 0, 0, NoScores, <<>>, 0)

-----------------------------------------------------------------------------
(* The inputs explored *)

RECURSIVE Repeat(_, _)
Repeat(f, k) == IF k = 0 THEN <<>> ELSE <<f>> \o Repeat(f, k - 1)

\* all sequences over S of length n
RECURSIVE SeqsOfLen(_, _)
SeqsOfLen(S, n) ==
    IF n = 0 THEN {<<>>}
    ELSE {Append(q, x) : q \in SeqsOfLen(S, n - 1), x \in S}

SeqsUpTo(S, n) == UNION {SeqsOfLen(S, m) : m \in 0..n}

\* the symbols frames are written with
Symbols ==
    {Sym("X"), Sym("x"), Sym("/"), Sym("0"), Sym("5"), Sym("7"), Sym("A"),
     Padded("x"), Padded("/"), Padded("5")}

\* the symbols over-long frames are written with
LongSymbols == {Sym("X"), Sym("5")}

\* a frame: any sequence of up to 3 symbols, or an over-long one
Frames ==
    SeqsUpTo(Symbols, MaxRollsTenth)
    \cup UNION {SeqsOfLen(LongSymbols, n) :
                  n \in (MaxRollsTenth + 1)..(MaxRollsTenth + MaxExtraRolls)}

\* the frames a game may open with, repeated
OpeningFrames ==
    {<<Sym("X")>>, <<Sym("5"), Sym("/")>>, <<Sym("0"), Sym("0")>>,
     <<Sym("5")>>, <<>>, <<Padded("x"), Padded("x")>>, <<Sym("12"), Sym("0")>>}

\* a game: the same opening frame 0..MaxPrefix times, then at most one frame of any kind
Games ==
    {Repeat(f, k) : f \in OpeningFrames, k \in 0..MaxPrefix}
    \cup {Repeat(f, k) \o <<last>> : f \in OpeningFrames, k \in 0..MaxPrefix, last \in Frames}

-----------------------------------------------------------------------------
(* score_game as a state machine: one action per call it makes *)

Init ==
    /\ pc = "start"
    /\ frames \in Games
    /\ rolls = <<>>
    /\ starts = <<>>
    /\ scores = <<>>
    /\ cursors = <<>>
    /\ covered = 0
    /\ err = ""
    /\ errFrame = 0

\* self._validate_structure(frames)
ValidateStructure ==
    /\ pc = "start"
    /\ IF TooManyFrames(frames)
       THEN /\ pc' = "error"
            /\ err' = "more than 10 frames"
       ELSE /\ pc' = "validated"
            /\ err' = ""
    /\ UNCHANGED <<frames, rolls, starts, scores, cursors, covered, errFrame>>

\* rolls = self._parse_frames_to_rolls(frames)
ParseFramesToRolls ==
    /\ pc = "validated"
    /\ LET r == parse_frames_to_rolls(frames) IN
       /\ pc' = IF r.err # "" THEN "error" ELSE "parsed"
       /\ err' = r.err
       /\ errFrame' = r.errFrame
       /\ rolls' = r.rolls
       /\ starts' = r.starts
    /\ UNCHANGED <<frames, scores, cursors, covered>>

\* return self._calculate_cumulative_scores(rolls)
CalculateCumulativeScores ==
    /\ pc = "parsed"
    /\ LET r == calculate_cumulative_scores(rolls) IN
       /\ scores' = r.scores
       /\ cursors' = r.cursors
       /\ covered' = r.covered
    /\ pc' = "done"
    /\ UNCHANGED <<frames, rolls, starts, err, errFrame>>

Next == ValidateStructure \/ ParseFramesToRolls \/ CalculateCumulativeScores

Spec == Init /\ [][Next]_vars

-----------------------------------------------------------------------------
(* _calculate_cumulative_scores called on its own, on any pinfall list *)

RECURSIVE Flatten(_)
Flatten(ss) == IF ss = <<>> THEN <<>> ELSE Head(ss) \o Flatten(Tail(ss))

\* the frames a pinfall list may open with: strike, spare, gutter spare, open
OpeningRolls == {<<10>>, <<5, 5>>, <<0, 10>>, <<3, 4>>}

RollLists ==
    {Flatten(Repeat(u, k)) \o tail :
        u \in OpeningRolls, k \in 0..MaxOpening, tail \in SeqsUpTo(0..AllPins, MaxTailRolls)}

ScorerInit ==
    /\ pc = "parsed"
    /\ frames = <<>>
    /\ rolls \in RollLists
    /\ starts = <<>>
    /\ scores = <<>>
    /\ cursors = <<>>
    /\ covered = 0
    /\ err = ""
    /\ errFrame = 0

ScorerNext == CalculateCumulativeScores

ScorerSpec == ScorerInit /\ [][ScorerNext]_vars

-----------------------------------------------------------------------------
(* Vocabulary of the properties *)

Accepted == pc = "done"
Rejected == pc = "error"
Returned == pc \in {"done", "error"}

Resolved(k) == scores[k] # None
AllResolved == \A k \in 1..MaxFrames : Resolved(k)

\* a strike symbol, whatever its case and the whitespace around it
IsStrikeSymbol(s) == s.ch \in {"X", "x"}
\* a spare mark, whatever the whitespace around it
IsSpareSymbol(s) == s.ch = "/"
\* a numeric symbol 0..9, whatever the whitespace around it
IsPinSymbol(s) == s.ch \in DigitText
\* a symbol written with no whitespace around it
Bare(s) == ~s.pad

\* the game with every symbol stripped of whitespace and every strike written 'X'
Canonical(fs) == [k \in 1..Len(fs) |-> [i \in 1..Len(fs[k]) |-> upper(strip(fs[k][i]))]]

RejectedOutcome == [rejected |-> TRUE, scores |-> <<>>]

\* what score_game gives for a game: the ten entries, or a rejection
OutcomeOf(fs) ==
    IF TooManyFrames(fs) THEN RejectedOutcome
    ELSE IF parse_frames_to_rolls(fs).err # "" THEN RejectedOutcome
    ELSE [rejected |-> FALSE,
          scores |-> calculate_cumulative_scores(parse_frames_to_rolls(fs).rolls).scores]

\* what this run of score_game gave
Outcome == IF Rejected THEN RejectedOutcome ELSE [rejected |-> FALSE, scores |-> scores]

\* frames 1..k-1 raise nothing, so the parser reaches frame k
Reaches(k) ==
    /\ k \in 1..Len(frames)
    /\ ~TooManyFrames(frames)
    /\ parse_frames_to_rolls(SubSeq(frames, 1, k - 1)).err = ""

-----------------------------------------------------------------------------
(* C1 *)

\* C1: every accepted game of 0 to 10 frames returns exactly 10 entries, and no
\* resolved entry stands after an unresolved one.
C1_TenEntriesMonotone ==
    (Accepted /\ Len(frames) \in 0..MaxFrames) =>
        /\ Len(scores) = MaxFrames
        /\ \A i \in 1..Len(scores) : \A j \in 1..Len(scores) :
              (i < j /\ scores[i] = None) => scores[j] = None

\* a partial game: the first frames are resolved, a later one is not
C1_Witness ==
    /\ Accepted
    /\ Len(frames) >= 2
    /\ Len(scores) = MaxFrames
    /\ scores[2] # None
    /\ scores[3] = None

-----------------------------------------------------------------------------
(* C3 *)

\* C3: in every accepted game the resolved entries are integers >= 0 that never
\* decrease, and when all ten are resolved the last one is in 0..300.
C3_NonDecreasingBounded ==
    Accepted =>
        /\ \A k \in 1..Len(scores) : Resolved(k) => scores[k] \in Nat
        /\ \A i \in 1..Len(scores) : \A j \in 1..Len(scores) :
              (i < j /\ Resolved(i) /\ Resolved(j)) => scores[i] <= scores[j]
        /\ (Len(scores) = MaxFrames /\ AllResolved) => scores[MaxFrames] \in 0..300

\* the perfect game: twelve strikes, 300
C3_Witness ==
    /\ Accepted
    /\ frames = Repeat(<<Sym("X")>>, TenthIndex) \o <<Repeat(Sym("X"), MaxRollsTenth)>>
    /\ Len(scores) = MaxFrames
    /\ AllResolved
    /\ scores[MaxFrames] = 300

-----------------------------------------------------------------------------
(* C4 *)

StructureError == "more than 10 frames"

\* C4: score_game raises the structure error exactly when the input has more than
\* 10 frames, whatever the frames contain.
C4_StructureErrorIffTooLong ==
    pc # "start" => ((err = StructureError) <=> (Len(frames) > MaxFrames))

\* eleven frames, the first of which breaks a frame rule: the structure error is reported
C4_Witness ==
    /\ Rejected
    /\ err = StructureError
    /\ Len(frames) > MaxFrames
    /\ ParseFrame(0, frames[1], <<>>).err # ""

-----------------------------------------------------------------------------
(* C2 *)

\* C2: whitespace around a symbol and the case of the strike symbol never change
\* the outcome: the game as written gives what the same game gives with every
\* symbol stripped and every strike written 'X' (the same ten entries, or a
\* rejection in both cases).
C2_WhitespaceCaseInsignificant ==
    Returned => Outcome = OutcomeOf(Canonical(frames))

-----------------------------------------------------------------------------
(* C5 *)

StrikeNotFirst == "Strike must be the first roll"

-----------------------------------------------------------------------------
(* C6 *)

\* C6: in every accepted game whose ten entries are all resolved, the pinfalls the
\* scorer read for its ten logical frames (the tenth frame's bonus pinfalls
\* included) are all the pinfalls the parser produced: none is left over.
C6_NoPinfallLeftOver ==
    (Accepted /\ Len(scores) = MaxFrames /\ AllResolved) => covered = Len(rolls)

-----------------------------------------------------------------------------
(* C7 *)

BonusNotEarned == "Extra roll only allowed for Strike or Spare"

\* the tenth frame, in a game of ten frames whose first nine raise nothing
TenthReached == Len(frames) = MaxFrames /\ Reaches(MaxFrames)
Tenth == frames[MaxFrames]
EarnsBonus(f) == IsStrikeSymbol(f[1]) \/ IsSpareSymbol(f[2])

\* C7: when the parser reaches a tenth frame of exactly 3 symbols, the game is
\* accepted only if the frame's first symbol is a strike or its second a spare
\* mark; every other 3-symbol tenth frame is rejected with the unearned-bonus
\* error, whatever its symbols are; a tenth frame of more than 3 symbols is
\* rejected as too many rolls.
C7_TenthFrameBonus ==
    (Returned /\ TenthReached) =>
        /\ (Len(Tenth) = MaxRollsTenth /\ Accepted) => EarnsBonus(Tenth)
        /\ (Len(Tenth) = MaxRollsTenth /\ ~EarnsBonus(Tenth))
              => (Rejected /\ err = BonusNotEarned /\ errFrame = MaxFrames)
        /\ Len(Tenth) > MaxRollsTenth
              => (Rejected /\ err = "Frame 10 has too many rolls" /\ errFrame = MaxFrames)

\* ["5", "0", "A"] as tenth frame: the unearned bonus is reported, not the invalid symbol
C7_Witness ==
    /\ Rejected
    /\ TenthReached
    /\ Tenth = <<Sym("5"), Sym("0"), Sym("A")>>
    /\ err = BonusNotEarned

-----------------------------------------------------------------------------
(* C9 *)

\* C9: in every accepted game, each resolved logical frame k of the scorer begins
\* at the first pinfall parsed from input frame k.  Stated for games written
\* without whitespace or lowercase, where the validation of padded symbols (C2)
\* plays no part.
C9_FrameAlignment ==
    (Accepted /\ Canonical(frames) = frames) =>
        \A k \in 1..Len(cursors) : k <= Len(starts) /\ cursors[k] = starts[k]

-----------------------------------------------------------------------------
(* C10 *)

\* C10: in every game the parser accepts, whenever a numeric symbol is followed by
\* another symbol in the same frame, the two pinfalls sum to at most 10, and to
\* exactly 10 only when the second symbol is a spare mark.  Stated for games
\* written without whitespace or lowercase, where the validation of padded
\* symbols (C2) plays no part.
C10_PinBoundInFrame ==
    (Accepted /\ Canonical(frames) = frames) =>
        \A k \in 1..Len(frames) : \A i \in 1..(Len(frames[k]) - 1) :
            IsPinSymbol(frames[k][i]) =>
                LET first == At(rolls, starts[k] + i - 1)
                    second == At(rolls, starts[k] + i)
                IN  /\ first + second <= AllPins
                    /\ first + second = AllPins => IsSpareSymbol(frames[k][i + 1])

-----------------------------------------------------------------------------
(* C8: the reference scoring rule, frame by frame *)

Exists(rs, pos) == pos < Len(rs)

\* the pinfalls the frame at cursor c needs are there
RefNeeded(rs, c) ==
    /\ Exists(rs, c)
    /\ IF At(rs, c) = 10
       THEN Exists(rs, c + 1) /\ Exists(rs, c + 2)
       ELSE /\ Exists(rs, c + 1)
            /\ (At(rs, c) + At(rs, c + 1) = 10) => Exists(rs, c + 2)

\* the value of the (resolved) frame at cursor c
RefFrameScore(rs, c) ==
    IF At(rs, c) = 10 THEN 10 + At(rs, c + 1) + At(rs, c + 2)
    ELSE IF At(rs, c) + At(rs, c + 1) = 10 THEN 10 + At(rs, c + 2)
    ELSE At(rs, c) + At(rs, c + 1)

\* where frame k begins, when the frames before it are resolved
RECURSIVE RefCursor(_, _)
RefCursor(rs, k) ==
    IF k = 1 THEN 0
    ELSE LET c == RefCursor(rs, k - 1) IN c + (IF At(rs, c) = 10 THEN 1 ELSE 2)

RECURSIVE RefResolved(_, _)
RefResolved(rs, k) ==
    /\ k = 1 \/ RefResolved(rs, k - 1)
    /\ RefNeeded(rs, RefCursor(rs, k))

RECURSIVE RefEntry(_, _)
RefEntry(rs, k) ==
    IF ~RefResolved(rs, k) THEN None
    ELSE (IF k = 1 THEN 0 ELSE RefEntry(rs, k - 1)) + RefFrameScore(rs, RefCursor(rs, k))

\* C8: for every pinfall list, entry k of the scorer is the reference entry: the
\* previous entry plus the frame's value when frame k and all earlier frames have
\* their pinfalls, unresolved otherwise; the scorer began each resolved frame at
\* the reference cursor, wrote nothing from the first frame lacking pinfalls on,
\* and raised no error.
C8_ScorerMatchesReference ==
    Accepted =>
        /\ err = ""
        /\ Len(scores) = MaxFrames
        /\ \A k \in 1..MaxFrames : scores[k] = RefEntry(rolls, k)
        /\ \A k \in 1..MaxFrames :
              IF RefResolved(rolls, k)
              THEN k <= Len(cursors) /\ cursors[k] = RefCursor(rolls, k)
              ELSE k > Len(cursors)

\* eleven strikes: nine frames resolved, the tenth waits for its second bonus pinfall
C8_Witness ==
    /\ Accepted
    /\ rolls = Repeat(10, 11)
    /\ Resolved(9)
    /\ ~Resolved(MaxFrames)

============================================================================
